---- MODULE Spec2Model ----
(***************************************************************************)
(* Model of conan/build.py of skypjack/entt: the script reads the          *)
(* environment, resolves the package reference "name/version", asks the    *)
(* external ConanMultiPackager for a build matrix, filters the matrix on   *)
(* the "<name>:shared" option and hands it to the packager's run().        *)
(*                                                                         *)
(* Python strings are tuples of one-character strings, so that replace()   *)
(* and format() are computed character by character.  A Python value is a  *)
(* record [type, val]; None and the boolean False are values of their own  *)
(* types and are never equal to a str.                                     *)
(***************************************************************************)
EXTENDS Integers, Sequences, FiniteSets

\* ---------------------------------------------------------------- bounds
MaxTagLen == 2      \* longest free-form version tag drawn from TagChars
MaxBuilds == 3      \* largest matrix add_common_builds hands back

\* ------------------------------------------------------- string literals
S_True == <<"T", "r", "u", "e">>
S_False == <<"F", "a", "l", "s", "e">>
S_true == <<"t", "r", "u", "e">>
S_entt == <<"e", "n", "t", "t">>
S_v == <<"v">>
S_empty == <<>>
RefsTags == <<"r", "e", "f", "s", "/", "t", "a", "g", "s", "/">>

PyStr(s) == [type |-> "str", val |-> s]
PyNone == [type |-> "NoneType", val |-> <<>>]
PyFalse == [type |-> "bool", val |-> S_False]
Unbound == [type |-> "unbound", val |-> <<>>]

\* build.py line 11
package_name_unset == <<"S", "E", "T", "-", "C", "O", "N", "A", "N", "_", "P", "A", "C", "K", "A", "G", "E", "_", "N", "A", "M", "E", "-", "O", "R", "-", "C", "O", "N", "A", "N", "_", "R", "E", "F", "E", "R", "E", "N", "C", "E">>

\* conanfile.py line 7: the name the packager derives option names from
name == S_entt

\* ------------------------------------------------------------ input sets
Digits == {"0", "2", "3"}
TagChars == {"v", "1", "."}

\* X.Y.Z
SemVers == {<<x, ".", y, ".", z>> : x \in Digits, y \in Digits, z \in Digits}

SeqsUpTo(S, n) == UNION {[1..k -> S] : k \in 0..n}

Tags == SeqsUpTo(TagChars, MaxTagLen)
          \cup {S_v \o s : s \in SemVers}
          \cup {RefsTags \o S_v \o s : s \in SemVers}

NotSet == <<"<not set>">>

EnvNames == {"CONAN_PACKAGE_VERSION", "TRAVIS_TAG", "CONAN_PACKAGE_NAME",
             "CONAN_HEADER_ONLY", "CONAN_PURE_C", "CONAN_DISABLE_SHARED_BUILD"}

MkEnviron(c) == [k \in {n \in EnvNames : c[n] # NotSet} |-> c[k]]

VARIABLES environ, pc, exc, tag_version, package_version, package_name,
          reference, header_only, pure_c, disable_shared, builder,
          filtered_builds

vars == <<environ, pc, exc, tag_version, package_version, package_name,
          reference, header_only, pure_c, disable_shared, builder,
          filtered_builds>>

\* --------------------------------------------------------------- helpers
getenv(key, default) ==
    IF key \in DOMAIN environ THEN PyStr(environ[key]) ELSE default

RECURSIVE replace(_, _, _)
replace(s, old, new) ==
    IF s = <<>> THEN <<>>
    ELSE (IF Head(s) = old THEN new ELSE <<Head(s)>>) \o replace(Tail(s), old, new)

format(a, b) == a \o <<"/">> \o b

SharedKey(pn) == pn \o <<":", "s", "h", "a", "r", "e", "d">>

\* ------------------------------------------------------------------ Init
Init ==
    /\ \E ver \in {NotSet, <<"3", ".", "2", ".", "0">>},
          tag \in Tags \cup {NotSet},
          nm \in {NotSet, S_empty, S_entt},
          ho \in {NotSet, S_False, S_True},
          pcf \in {NotSet, S_True},
          ds \in {NotSet, S_False, S_True, S_true} :
         environ = MkEnviron([CONAN_PACKAGE_VERSION |-> ver,
                              TRAVIS_TAG |-> tag,
                              CONAN_PACKAGE_NAME |-> nm,
                              CONAN_HEADER_ONLY |-> ho,
                              CONAN_PURE_C |-> pcf,
                              CONAN_DISABLE_SHARED_BUILD |-> ds])
    /\ pc = "resolve"
    /\ exc = "none"
    /\ tag_version = Unbound
    /\ package_version = Unbound
    /\ package_name = Unbound
    /\ reference = Unbound
    /\ header_only = Unbound
    /\ pure_c = Unbound
    /\ disable_shared = Unbound
    /\ builder = [reference |-> <<>>, items |-> <<>>, calls |-> <<>>]
    /\ filtered_builds = <<>>

\* ------------------------------------------------- lines 7-24: resolution
\* the strip left out
package_version_of_unstripped(tv) == tv

package_version_of(tv) == replace(tv, "v", <<>>)

Resolve ==
    /\ pc = "resolve"
    /\ LET tv == getenv("CONAN_PACKAGE_VERSION", getenv("TRAVIS_TAG", PyNone))
           pn == getenv("CONAN_PACKAGE_NAME", PyStr(package_name_unset))
           ds == getenv("CONAN_DISABLE_SHARED_BUILD", PyStr(S_False))
       IN /\ tag_version' = tv
          /\ IF tv.type # "str"
             THEN \* None has no attribute 'replace'
                  /\ exc' = "AttributeError"
                  /\ pc' = "raised"
                  /\ UNCHANGED <<package_version, package_name, reference,
                                 header_only, pure_c, disable_shared>>
             ELSE /\ package_version' = PyStr(package_version_of(tv.val))
                  /\ package_name' = pn
                  /\ reference' = PyStr(format(pn.val, package_version_of(tv.val)))
                  /\ header_only' = getenv("CONAN_HEADER_ONLY", PyFalse)
                  /\ pure_c' = getenv("CONAN_PURE_C", PyFalse)
                  /\ disable_shared' = ds
                  /\ IF ds = PyStr(S_True) /\ pn = PyStr(package_name_unset)
                     THEN exc' = "Exception" /\ pc' = "raised"
                     ELSE exc' = "none" /\ pc' = "construct"
    /\ UNCHANGED <<environ, builder, filtered_builds>>

\* ----------------------------------------------- lines 26-33: the packager
Construct ==
    /\ pc = "construct"
    /\ builder' = [reference |-> reference.val, items |-> <<>>,
                   calls |-> <<[fn |-> "ConanMultiPackager", arg |-> reference]>>]
    /\ pc' = "add"
    /\ UNCHANGED <<environ, exc, tag_version, package_version, package_name,
                   reference, header_only, pure_c, disable_shared,
                   filtered_builds>>

\* ----------------------------------- lines 34-37: the generated matrix
\* The options mapping of a generated configuration either is empty or holds
\* the shared option of the packaged recipe.
OptionsSet == [{} -> BOOLEAN] \cup [{SharedKey(name)} -> BOOLEAN]

BuildConf(i, o, ref) ==
    [settings |-> i, options |-> o, env_vars |-> <<>>, build_requires |-> <<>>,
     reference |-> ref]

\* add_common_builds hands back any matrix of up to MaxBuilds configurations,
\* told apart by their settings.
\* line 34: the mode test
common_mode(ho) == ho = PyStr(S_False)

AddCommonBuilds ==
    /\ pc = "add"
    /\ common_mode(header_only)
    /\ \E k \in 0..MaxBuilds : \E os \in [1..k -> OptionsSet] :
         builder' = [builder EXCEPT
            !.items = [i \in 1..k |-> BuildConf(i, os[i], builder.reference)],
            !.calls = Append(@, [fn |-> "add_common_builds", arg |-> pure_c])]
    /\ pc' = "filter"
    /\ UNCHANGED <<environ, exc, tag_version, package_version, package_name,
                   reference, header_only, pure_c, disable_shared,
                   filtered_builds>>

\* builder.add() with no arguments: one configuration, empty options
Add ==
    /\ pc = "add"
    /\ ~common_mode(header_only)
    /\ builder' = [builder EXCEPT
            !.items = Append(@, BuildConf(1, <<>>, builder.reference)),
            !.calls = Append(@, [fn |-> "add", arg |-> PyNone])]
    /\ pc' = "filter"
    /\ UNCHANGED <<environ, exc, tag_version, package_version, package_name,
                   reference, header_only, pure_c, disable_shared,
                   filtered_builds>>

\* ------------------------------------------------ lines 39-43: the filter
\* line 41 with the 'not' left out
Retain_without_not(options, ds, pn) ==
    IF ds = PyStr(S_False) THEN "keep"
    ELSE IF SharedKey(pn.val) \notin DOMAIN options THEN "KeyError"
    ELSE IF options[SharedKey(pn.val)] THEN "keep"
    ELSE "drop"

\* line 41: "keep", "drop", or the KeyError of the subscript
Retain(options, ds, pn) ==
    IF ds = PyStr(S_False) THEN "keep"
    ELSE IF SharedKey(pn.val) \notin DOMAIN options THEN "KeyError"
    ELSE IF ~options[SharedKey(pn.val)] THEN "keep"
    ELSE "drop"

\* line 42: the list that is appended
Kept(conf) ==
    [settings |-> conf.settings, options |-> conf.options,
     env_vars |-> conf.env_vars, build_requires |-> conf.build_requires]

RECURSIVE FilterFrom(_, _, _, _, _)
FilterFrom(items, i, acc, ds, pn) ==
    IF i > Len(items)
    THEN [exc |-> "none", filtered_builds |-> acc, last |-> i - 1]
    ELSE LET r == Retain(items[i].options, ds, pn)
         IN IF r = "KeyError"
            THEN [exc |-> "KeyError", filtered_builds |-> acc, last |-> i]
            ELSE FilterFrom(items, i + 1,
                            IF r = "keep" THEN Append(acc, Kept(items[i])) ELSE acc,
                            ds, pn)

\* lines 39-42 with the loop stopping one item short
FilterLoop_one_short(items, ds, pn) ==
    FilterFrom(SubSeq(items, 1, Len(items) - 1), 1, <<>>, ds, pn)

\* lines 39-42
FilterLoop(items, ds, pn) == FilterFrom(items, 1, <<>>, ds, pn)

\* line 43: the builds setter rebuilds the packager's list from the 4-lists,
\* each with the packager's own reference
SetBuilds(b, confs) ==
    [b EXCEPT !.items = [i \in 1..Len(confs) |->
        [settings |-> confs[i].settings, options |-> confs[i].options,
         env_vars |-> confs[i].env_vars,
         build_requires |-> confs[i].build_requires,
         reference |-> b.reference]]]

Filter ==
    /\ pc = "filter"
    /\ LET r == FilterLoop(builder.items, disable_shared, package_name)
       IN /\ filtered_builds' = r.filtered_builds
          \* the loop target rebinds the local name 'reference'
          /\ reference' = IF r.last = 0 THEN reference
                          ELSE PyStr(builder.items[r.last].reference)
          /\ exc' = r.exc
          /\ IF r.exc = "KeyError"
             THEN pc' = "raised" /\ builder' = builder
             ELSE pc' = "run" /\ builder' = SetBuilds(builder, r.filtered_builds)
    /\ UNCHANGED <<environ, tag_version, package_version, package_name,
                   header_only, pure_c, disable_shared>>

\* ------------------------------------------------------- line 45: the run
Run ==
    /\ pc = "run"
    /\ builder' = [builder EXCEPT !.calls = Append(@, [fn |-> "run", arg |-> PyNone])]
    /\ pc' = "done"
    /\ UNCHANGED <<environ, exc, tag_version, package_version, package_name,
                   reference, header_only, pure_c, disable_shared,
                   filtered_builds>>

Next == Resolve \/ Construct \/ AddCommonBuilds \/ Add \/ Filter \/ Run

Spec == Init /\ [][Next]_vars

\* ================================================================ claims
HasPrefix(s, p) == Len(s) >= Len(p) /\ SubSeq(s, 1, Len(p)) = p

\* line 10 has been executed
Stripped == pc # "resolve" /\ tag_version.type = "str"

\* resolution (lines 7-24) ended without raising
ResolvedOK == pc # "resolve" /\ exc \notin {"AttributeError", "Exception"}

NameSourceMissing ==
    \/ "CONAN_PACKAGE_NAME" \notin DOMAIN environ
    \/ environ["CONAN_PACKAGE_NAME"] = <<>>

VersionSourceMissing ==
    /\ "CONAN_PACKAGE_VERSION" \notin DOMAIN environ
    /\ "TRAVIS_TAG" \notin DOMAIN environ

FlagIs(key, s) == key \in DOMAIN environ /\ environ[key] = s

CallCount(fns) == Cardinality({i \in 1..Len(builder.calls) : builder.calls[i].fn \in fns})

S_3_2_0 == <<"3", ".", "2", ".", "0">>

\* C1 (as claimed): for every raw tag "refs/tags/vX.Y.Z" the resolved version
\* is exactly "X.Y.Z".
C1_RefsTagsPrefixRemoved ==
    \A s \in SemVers :
        (Stripped /\ tag_version.val = RefsTags \o S_v \o s)
            => package_version = PyStr(s)

\* C1 (amended): for every raw tag "vX.Y.Z" with X, Y, Z digits the resolved
\* version is exactly "X.Y.Z" and the reference is "<name>/X.Y.Z", so name
\* "entt" with tag "v3.2.0" gives "entt/3.2.0"; of a tag "refs/tags/vX.Y.Z"
\* only the "v" is removed, giving "refs/tags/X.Y.Z".
C1_VPrefixRemoved ==
    \A s \in SemVers :
        /\ (Stripped /\ tag_version.val = S_v \o s)
              => /\ package_version = PyStr(s)
                 /\ reference = PyStr(package_name.val \o <<"/">> \o s)
        /\ (Stripped /\ tag_version.val = RefsTags \o S_v \o s)
              => package_version = PyStr(RefsTags \o s)

C1_Witness ==
    /\ pc = "done"
    /\ tag_version = PyStr(S_v \o S_3_2_0)
    /\ package_name = PyStr(S_entt)
    /\ reference = PyStr(<<"e", "n", "t", "t", "/", "3", ".", "2", ".", "0">>)

\* C2: when neither CONAN_PACKAGE_VERSION nor TRAVIS_TAG is set, resolution
\* ends in the configuration error (the script's own raise), whatever the
\* other inputs are.
C2_MissingVersionIsConfigError ==
    (pc # "resolve" /\ VersionSourceMissing) => (pc = "raised" /\ exc = "Exception")

\* C3: with a version present and the package-name source empty or unset,
\* resolution with the shared-disabled flag "True" fails with the
\* configuration error, and with the flag "False" it succeeds with the
\* sentinel as the name.
C3_MissingNameGuard ==
    (pc # "resolve" /\ ~VersionSourceMissing /\ NameSourceMissing) =>
        /\ FlagIs("CONAN_DISABLE_SHARED_BUILD", S_True)
              => (pc = "raised" /\ exc = "Exception")
        /\ (FlagIs("CONAN_DISABLE_SHARED_BUILD", S_False)
              \/ "CONAN_DISABLE_SHARED_BUILD" \notin DOMAIN environ)
              => /\ ResolvedOK
                 /\ package_name = PyStr(package_name_unset)
                 /\ HasPrefix(reference.val, package_name_unset \o <<"/">>)

\* the filter of line 41 would drop a configuration whose shared option for
\* this package is true
FilterActive ==
    Retain([k \in {SharedKey(package_name.val)} |-> TRUE],
           disable_shared, package_name) = "drop"

\* C4: after a successful resolution the package name is the sentinel only
\* if the filter is inactive.
C4_SentinelOnlyIfFilterOff ==
    (ResolvedOK /\ FilterActive) => package_name # PyStr(package_name_unset)

C6_FilterIdempotent ==
    pc \in {"run", "done"} =>
        LET again == FilterLoop(builder.items, disable_shared, package_name)
        IN /\ again.exc = "none"
           /\ again.filtered_builds = filtered_builds
           /\ SetBuilds(builder, again.filtered_builds).items = builder.items

\* a matrix whose first configuration was dropped and another one kept
C6_Witness ==
    /\ pc = "run"
    /\ disable_shared # PyStr(S_False)
    /\ Len(builder.items) >= 1
    /\ builder.items[1].settings = 2

\* C7: a run that ends in a configuration error never asked the generator
\* for a matrix and never invoked the runner; every other finished run
\* invoked the runner exactly once, after the matrix was replaced by the
\* filtered one.
C7_RunOrdering ==
    /\ exc \in {"AttributeError", "Exception"}
          => CallCount({"add_common_builds", "add", "run"}) = 0
    /\ (pc \in {"done", "raised"} /\ exc \notin {"AttributeError", "Exception"})
          => CallCount({"run"}) = 1
    /\ CallCount({"run"}) >= 1
          => (pc = "done" /\ builder.items = SetBuilds(builder, filtered_builds).items)

\* C8: a raw tag without the tag prefix is left unchanged by the strip.
C8_NoPrefixNoChange ==
    (Stripped /\ ~HasPrefix(tag_version.val, S_v)
              /\ ~HasPrefix(tag_version.val, RefsTags \o S_v))
        => package_version = tag_version

\* C9: after a successful resolution the filter step never fails, for every
\* generated matrix and every value of the shared-disabled flag.
C9_FilterNeverFails ==
    ResolvedOK => (exc = "none" /\ pc # "raised")

\* C10: all default configurations are requested whenever the header-only
\* flag is "False" or unset, a single one only when it is "True".
C10_GenerationMode ==
    Len(builder.calls) >= 2 =>
        /\ (FlagIs("CONAN_HEADER_ONLY", S_False)
              \/ "CONAN_HEADER_ONLY" \notin DOMAIN environ)
              => builder.calls[2].fn = "add_common_builds"
        /\ builder.calls[2].fn = "add" => FlagIs("CONAN_HEADER_ONLY", S_True)

====
